---- MODULE Spec2Model ----
(***************************************************************************)
(* Grid-search root approximation of demo_16_Solving_Equations/            *)
(* scipy_solving.py: x_grid = np.arange(start, stop, step),                *)
(* f_grid = f(x_grid), x_root = x_grid[abs(f_grid).argmin()].              *)
(*                                                                         *)
(* Numbers are exact rationals [n |-> numerator, d |-> denominator] in     *)
(* lowest terms with d > 0; the three non-finite floating-point values     *)
(* are the records with d = 0.  Floating-point rounding is not modelled.   *)
(*                                                                         *)
(* An array is kept as the expression that made it: np.arange's result as  *)
(* its first value, step and length, an elementwise result as the function *)
(* applied and the array it was applied to, an array that is assigned to   *)
(* as the list of its elements.  At(arr, k) is arr[k], computed when read; *)
(* indices run from 0 as in Python.                                        *)
(***************************************************************************)
EXTENDS Integers, Sequences

VARIABLES pc, start, stop, step, later, fn, x_grid, f_grid, abs_f_grid,
          i, min_ind, x_root_index, roots, err, p_grid, order

vars == <<pc, start, stop, step, later, fn, x_grid, f_grid, abs_f_grid,
          i, min_ind, x_root_index, roots, err, p_grid, order>>

(***************************************************************************)
(* Exact arithmetic on the numbers of the script.                          *)
(***************************************************************************)
RECURSIVE Gcd(_, _)
Gcd(m, k) == IF k = 0 THEN m ELSE Gcd(k, m % k)

AbsInt(m) == IF m < 0 THEN -m ELSE m

Rat(num, den) ==
    LET s == IF den < 0 THEN -1 ELSE 1
        g == Gcd(AbsInt(num), AbsInt(den))
    IN  [n |-> (s * num) \div g, d |-> (s * den) \div g]

IntQ(m) == [n |-> m, d |-> 1]

NaN == [n |-> 0, d |-> 0]

PosInf == [n |-> 1, d |-> 0]

NegInf == [n |-> -1, d |-> 0]

IsNaN(v) == v.d = 0 /\ v.n = 0

IsFinite(v) == v.d # 0

Lcm(m, k) == (m \div Gcd(m, k)) * k

Add(p, q) ==
    LET L == Lcm(p.d, q.d)
    IN  Rat(p.n * (L \div p.d) + q.n * (L \div q.d), L)

Neg(p) == [n |-> -p.n, d |-> p.d]

Sub(p, q) == Add(p, Neg(q))

Mul(p, q) ==
    LET g1 == Gcd(AbsInt(p.n), q.d)
        g2 == Gcd(AbsInt(q.n), p.d)
    IN  [n |-> (p.n \div g1) * (q.n \div g2), d |-> (p.d \div g2) * (q.d \div g1)]

Div(p, q) == Mul(p, IF q.n < 0 THEN [n |-> -q.d, d |-> -q.n] ELSE [n |-> q.d, d |-> q.n])

\* p >= q as the floating-point comparison decides it: FALSE when either is NaN.
GE(p, q) ==
    IF IsNaN(p) \/ IsNaN(q) THEN FALSE
    ELSE IF p.d = 0 \/ q.d = 0 THEN p.n * q.d >= q.n * p.d
    ELSE LET L == Lcm(p.d, q.d) IN p.n * (L \div p.d) >= q.n * (L \div q.d)

\* The least integer >= p, for finite p.
Ceil(p) == -((-p.n) \div p.d)

\* The greatest integer <= p, for finite p.
Floor(p) == p.n \div p.d

\* A faulty quad_fn: the constant term subtracted.
quad_fn_minus_c(x, a, b, c) == Sub(Add(Mul(a, Mul(x, x)), Mul(b, x)), c)

\* def quad_fn(x, a, b, c): f = a*x**2 + b*x + c
quad_fn(x, a, b, c) == Add(Add(Mul(a, Mul(x, x)), Mul(b, x)), c)

\* The function under test applied to one value: quad_fn with the script's
\* a, b, c, or an arbitrary function given by its table of values on the
\* integers.
Apply(f, x) ==
    IF f.kind = "quad" THEN quad_fn(x, f.a, f.b, f.c) ELSE f.tab[x.n]

Abs(v) == IF v.n < 0 THEN Neg(v) ELSE v

\* len(arr)
RECURSIVE Len0(_)
Len0(arr) ==
    CASE arr.op = "arange" -> arr.len
      [] arr.op = "list" -> Len(arr.elems)
      [] OTHER -> Len0(arr.arg)

\* arr[k], for k in 0 .. len(arr)-1
RECURSIVE At(_, _)
At(arr, k) ==
    CASE arr.op = "arange" -> Add(arr.first, Mul(IntQ(k), arr.step))
      [] arr.op = "map" -> Apply(arr.f, At(arr.arg, k))
      [] arr.op = "abs" -> Abs(At(arr.arg, k))
      [] arr.op = "list" -> arr.elems[k + 1]

\* The indices of arr.
Idx(arr) == 0 .. Len0(arr) - 1

EmptyArr == [op |-> "list", elems |-> <<>>]

(***************************************************************************)
(* The library calls and the function of the script.                       *)
(***************************************************************************)
\* Faulty lengths of np.arange: the count rounded down; the sign of the count
\* lost.
ArangeLenFloor(a, b, s) == LET m == Floor(Div(Sub(b, a), s)) IN IF m > 0 THEN m ELSE 0

ArangeLenAbs(a, b, s) == LET m == Ceil(Div(Sub(b, a), s)) IN IF m > 0 THEN m ELSE -m

\* np.arange(start, stop, step) for step # 0: ceil((stop-start)/step) values
\* start + k*step, none when that count is not positive.
ArangeLen(a, b, s) == LET m == Ceil(Div(Sub(b, a), s)) IN IF m > 0 THEN m ELSE 0

Arange(a, b, s) == [op |-> "arange", first |-> a, step |-> s, len |-> ArangeLen(a, b, s)]

\* f_grid = quad_fn(x_grid, a, b, c): the function applied elementwise.
EvalGrid(f, xs) == [op |-> "map", f |-> f, arg |-> xs]

\* abs(f_grid), elementwise.
AbsArr(arr) == [op |-> "abs", arg |-> arr]

\* Faulty scans: the largest element kept; a tie replaces the minimum;
\* the test written as "less than", which a NaN never passes.
ScanStepArgmax(arr, m, k) == IF ~GE(At(arr, m), At(arr, k)) THEN k ELSE m

ScanStepLastTie(arr, m, k) == IF GE(At(arr, m), At(arr, k)) THEN k ELSE m

ScanStepLess(arr, m, k) ==
    IF GE(At(arr, m), At(arr, k)) /\ ~GE(At(arr, k), At(arr, m)) THEN k ELSE m

\* One iteration of argmin's scan: element k replaces the minimum so far
\* unless it is >= that minimum (so a NaN replaces it, a tie does not).
ScanStep(arr, m, k) == IF ~GE(At(arr, k), At(arr, m)) THEN k ELSE m

\* The scan goes on while elements are left and the minimum so far is not NaN.
ScanMore(arr, m, k) == k < Len0(arr) /\ ~IsNaN(At(arr, m))

RECURSIVE ArgMinFrom(_, _, _)
ArgMinFrom(arr, m, k) ==
    IF ScanMore(arr, m, k) THEN ArgMinFrom(arr, ScanStep(arr, m, k), k + 1) ELSE m

\* arr.argmin() of a non-empty array.
ArgMin(arr) == ArgMinFrom(arr, 0, 1)

(***************************************************************************)
(* The statements of the grid search, one action each.                     *)
(***************************************************************************)
\* x_grid = np.arange(start, stop, step); a zero step raises in arange.
DoArange ==
    /\ pc = "arange"
    /\ IF step.n = 0
       THEN /\ pc' = "error"
            /\ err' = "ZeroDivisionError"
            /\ UNCHANGED x_grid
       ELSE /\ pc' = "eval"
            /\ x_grid' = Arange(start, stop, step)
            /\ UNCHANGED err
    /\ UNCHANGED <<start, stop, step, later, fn, f_grid, abs_f_grid, i, min_ind,
                   x_root_index, roots, p_grid, order>>

\* f_grid = quad_fn(x_grid, a, b, c)
DoEval ==
    /\ pc = "eval"
    /\ f_grid' = EvalGrid(fn, x_grid)
    /\ pc' = "abs"
    /\ UNCHANGED <<start, stop, step, later, fn, x_grid, abs_f_grid, i, min_ind,
                   x_root_index, roots, err, p_grid, order>>

\* abs_f_grid = abs(f_grid)
DoAbs ==
    /\ pc = "abs"
    /\ abs_f_grid' = AbsArr(f_grid)
    /\ pc' = "argmin"
    /\ UNCHANGED <<start, stop, step, later, fn, x_grid, f_grid, i, min_ind,
                   x_root_index, roots, err, p_grid, order>>

\* abs_f_grid.argmin() is entered: an empty array raises ValueError, otherwise
\* the scan starts with element 0 as the minimum.
ArgminBegin ==
    /\ pc = "argmin"
    /\ IF Len0(abs_f_grid) = 0
       THEN /\ pc' = "error"
            /\ err' = "ValueError"
            /\ UNCHANGED <<i, min_ind>>
       ELSE /\ pc' = "scan"
            /\ min_ind' = 0
            /\ i' = 1
            /\ UNCHANGED err
    /\ UNCHANGED <<start, stop, step, later, fn, x_grid, f_grid, abs_f_grid,
                   x_root_index, roots, p_grid, order>>

\* One iteration of the scan inside argmin.
ArgminStep ==
    /\ pc = "scan"
    /\ ScanMore(abs_f_grid, min_ind, i)
    /\ min_ind' = ScanStep(abs_f_grid, min_ind, i)
    /\ i' = i + 1
    /\ UNCHANGED <<pc, start, stop, step, later, fn, x_grid, f_grid, abs_f_grid,
                   x_root_index, roots, err, p_grid, order>>

\* x_root_index = abs_f_grid.argmin(); x_root = x_grid[x_root_index].  The
\* script then goes on to its next grid, if it has one.
Select ==
    /\ pc = "scan"
    /\ ~ScanMore(abs_f_grid, min_ind, i)
    /\ x_root_index' = min_ind
    /\ roots' = Append(roots, At(x_grid, min_ind))
    /\ IF later = <<>>
       THEN /\ pc' = "done"
            /\ UNCHANGED <<start, stop, step, later>>
       ELSE /\ pc' = "arange"
            /\ start' = Head(later).start
            /\ stop' = Head(later).stop
            /\ step' = Head(later).step
            /\ later' = Tail(later)
    /\ UNCHANGED <<fn, x_grid, f_grid, abs_f_grid, i, min_ind, err, p_grid, order>>

x_root_1 == roots[1]

x_root_2 == roots[2]

(***************************************************************************)
(* Initial states.  Base is what every run starts from; the inputs differ. *)
(***************************************************************************)
Base ==
    /\ pc = "arange"
    /\ x_grid = EmptyArr
    /\ f_grid = EmptyArr
    /\ abs_f_grid = EmptyArr
    /\ i = 0
    /\ min_ind = 0
    /\ x_root_index = 0
    /\ roots = <<>>
    /\ err = "none"
    /\ p_grid = EmptyArr
    /\ order = <<>>

\* a = 1/4, b = 1, c = -1
ScriptFn == [kind |-> "quad", a |-> Rat(1, 4), b |-> IntQ(1), c |-> IntQ(-1)]

\* The script: quad_fn on np.arange(-10, 5, 0.01), then on
\* np.arange(0, 1, 0.0001).
InitScript ==
    /\ Base
    /\ start = IntQ(-10)
    /\ stop = IntQ(5)
    /\ step = Rat(1, 100)
    /\ later = <<[start |-> IntQ(0), stop |-> IntQ(1), step |-> Rat(1, 10000)]>>
    /\ fn = ScriptFn

Next == DoArange \/ DoEval \/ DoAbs \/ ArgminBegin \/ ArgminStep \/ Select

SpecScript == InitScript /\ [][Next]_vars

\* Bounds of the grid searches with an arbitrary function.
MaxX == 2

MaxVal == 2

MaxStep == 2

IntQs(lo, hi) == {IntQ(v) : v \in lo .. hi}

TableFns(dom, vals) == {[kind |-> "table", tab |-> t] : t \in [dom -> vals]}

\* One grid search of an arbitrary finite-valued function on the integers
\* 0 .. MaxX, with arbitrary integer arguments of np.arange.
Init ==
    /\ Base
    /\ start \in IntQs(0, MaxX)
    /\ stop \in IntQs(0, MaxX + 1)
    /\ step \in IntQs(-MaxStep, MaxStep)
    /\ later = <<>>
    /\ fn \in TableFns(0 .. MaxX, IntQs(-MaxVal, MaxVal))

Spec == Init /\ [][Next]_vars

\* Bounds of the grid searches of quad_fn with arbitrary arguments.
MaxArg == 5

StepDen == 2

\* One grid search of the script's quad_fn with arbitrary arguments of
\* np.arange: integers for start and stop, multiples of 1/StepDen for step.
InitArgs ==
    /\ Base
    /\ start \in IntQs(-MaxArg, MaxArg)
    /\ stop \in IntQs(-MaxArg, MaxArg)
    /\ step \in {Rat(k, StepDen) : k \in -(MaxArg * StepDen) .. MaxArg * StepDen}
    /\ later = <<>>
    /\ fn = ScriptFn

SpecArgs == InitArgs /\ [][Next]_vars

\* Bounds of the grid searches of a function with non-finite values.
NFMaxLen == 3

NFMaxVal == 1

\* One grid search over 0, 1, .. of a function whose values may be NaN or
\* an infinity.
InitNF ==
    /\ Base
    /\ start = IntQ(0)
    /\ stop \in IntQs(1, NFMaxLen)
    /\ step = IntQ(1)
    /\ later = <<>>
    /\ fn \in TableFns(0 .. NFMaxLen - 1, IntQs(-NFMaxVal, NFMaxVal) \cup {NaN, PosInf, NegInf})

SpecNF == InitNF /\ [][Next]_vars

\* Bounds of the grid searches of a monotonic function.
MonoMaxX == 3

MonoMaxVal == 3

MonoMaxStep == 3

\* t is monotonic (non-decreasing or non-increasing) on lo .. hi.
Monotonic(t, lo, hi) ==
    \/ \A u, v \in lo .. hi : u <= v => t[u].n <= t[v].n
    \/ \A u, v \in lo .. hi : u <= v => t[u].n >= t[v].n

\* t is strictly monotonic on lo .. hi.
StrictlyMonotonic(t, lo, hi) ==
    \/ \A u, v \in lo .. hi : u < v => t[u].n < t[v].n
    \/ \A u, v \in lo .. hi : u < v => t[u].n > t[v].n

\* One grid search, with valid arguments, of an integer-valued function
\* that is monotonic on 0 .. MonoMaxX.
InitMono ==
    /\ Base
    /\ start \in IntQs(0, MonoMaxX)
    /\ stop \in IntQs(0, MonoMaxX + 1)
    /\ step \in IntQs(1, MonoMaxStep)
    /\ start.n < stop.n
    /\ step.n < stop.n - start.n
    /\ later = <<>>
    /\ fn \in {f \in TableFns(0 .. MonoMaxX, IntQs(-MonoMaxVal, MonoMaxVal)) :
                 Monotonic(f.tab, 0, MonoMaxX)}

SpecMono == InitMono /\ [][Next]_vars

(***************************************************************************)
(* The evaluation loop: f_grid = x_grid*0, then f_grid[i] = f(x_grid[i])   *)
(* for i in range(0, len(x_grid)).  Beside the script's sequential loop,   *)
(* p_grid is the same table filled by independent workers, one index each, *)
(* in any order; order lists the indices in the order they were written.   *)
(***************************************************************************)
\* x_grid*0
ZerosLike(xs) == [op |-> "list", elems |-> [k \in 1 .. Len0(xs) |-> Mul(At(xs, k - 1), IntQ(0))]]

\* arr[k] = v
SetAt(arr, k, v) == [arr EXCEPT !.elems[k + 1] = v]

\* A faulty loop body: a loop-carried dependency, each entry added to the
\* entry before it.
LoopBodyCarry(arr, k) ==
    SetAt(arr, k, IF k = 0 THEN Apply(fn, At(x_grid, k))
                  ELSE Add(At(arr, k - 1), Apply(fn, At(x_grid, k))))

\* f_grid[i] = f(x_grid[i])
LoopBody(arr, k) == SetAt(arr, k, Apply(fn, At(x_grid, k)))

\* f_grid = x_grid*0
Zeros ==
    /\ pc = "zeros"
    /\ f_grid' = ZerosLike(x_grid)
    /\ p_grid' = ZerosLike(x_grid)
    /\ i' = 0
    /\ pc' = "loop"
    /\ UNCHANGED <<start, stop, step, later, fn, x_grid, abs_f_grid, min_ind,
                   x_root_index, roots, err, order>>

\* One iteration of the script's loop.
LoopStep ==
    /\ pc = "loop"
    /\ i < Len0(x_grid)
    /\ f_grid' = LoopBody(f_grid, i)
    /\ i' = i + 1
    /\ UNCHANGED <<pc, start, stop, step, later, fn, x_grid, abs_f_grid, min_ind,
                   x_root_index, roots, err, p_grid, order>>

Written == {order[j] : j \in 1 .. Len(order)}

\* A worker evaluates one index nobody has written yet.
WorkerWrite ==
    /\ pc = "loop"
    /\ \E k \in Idx(x_grid) \ Written :
           /\ p_grid' = LoopBody(p_grid, k)
           /\ order' = Append(order, k)
    /\ UNCHANGED <<pc, start, stop, step, later, fn, x_grid, f_grid, abs_f_grid, i,
                   min_ind, x_root_index, roots, err>>

\* The loop has run over range(0, len(x_grid)) and every worker is done.
LoopExit ==
    /\ pc = "loop"
    /\ i = Len0(x_grid)
    /\ Written = Idx(x_grid)
    /\ pc' = "done"
    /\ UNCHANGED <<start, stop, step, later, fn, x_grid, f_grid, abs_f_grid, i,
                   min_ind, x_root_index, roots, err, p_grid, order>>

\* Bounds of the evaluation loops.
ParMaxLen == 3

ParMaxVal == 1

\* The state after x_grid = np.arange(start, stop, step), for a grid
\* 0, 1, .. and an arbitrary finite-valued function.
InitPar ==
    /\ pc = "zeros"
    /\ start = IntQ(0)
    /\ stop \in IntQs(1, ParMaxLen)
    /\ step = IntQ(1)
    /\ later = <<>>
    /\ fn \in TableFns(0 .. ParMaxLen - 1, IntQs(-ParMaxVal, ParMaxVal))
    /\ x_grid = Arange(start, stop, step)
    /\ f_grid = EmptyArr
    /\ abs_f_grid = EmptyArr
    /\ i = 0
    /\ min_ind = 0
    /\ x_root_index = 0
    /\ roots = <<>>
    /\ err = "none"
    /\ p_grid = EmptyArr
    /\ order = <<>>

NextPar == Zeros \/ LoopStep \/ WorkerWrite \/ LoopExit

SpecPar == InitPar /\ [][NextPar]_vars

(***************************************************************************)
(* Properties.                                                             *)
(***************************************************************************)
Terminal == pc \in {"done", "error"}

\* |f(x)| for the function under test.
Mag(x) == Abs(Apply(fn, x))

\* p < q, FALSE when either is NaN.
LT(p, q) == GE(q, p) /\ ~GE(p, q)

\* C1: the returned grid point is an element of the grid and minimises the
\* absolute function value over the whole grid: |f(x_r)| <= |f(x_j)| for
\* every index j.
C1_Minimiser ==
    pc = "done" =>
        /\ x_root_index \in Idx(x_grid)
        /\ x_root_1 = At(x_grid, x_root_index)
        /\ \A j \in Idx(x_grid) : GE(Mag(At(x_grid, j)), Mag(x_root_1))

\* A search over three grid points whose minimum is not the first one.
C1_Witness ==
    /\ pc = "done"
    /\ Len0(x_grid) >= 3
    /\ x_root_index >= 1
    /\ \E j \in Idx(x_grid) : LT(Mag(x_root_1), Mag(At(x_grid, j)))

\* C2: among grid points sharing the minimal absolute value the lowest index
\* is returned: every index before the returned one has a strictly greater
\* absolute value.
C2_FirstOccurrence ==
    pc = "done" =>
        \A j \in 0 .. x_root_index - 1 : LT(Mag(x_root_1), Mag(At(x_grid, j)))

\* The minimum is attained again after the returned index, which is not 0.
C2_Witness ==
    /\ pc = "done"
    /\ x_root_index >= 1
    /\ \E j \in Idx(x_grid) : j > x_root_index /\ Mag(At(x_grid, j)) = Mag(x_root_1)

ValidArgs == LT(start, stop) /\ LT(IntQ(0), step) /\ LT(step, Sub(stop, start))

InHalfOpen(xs, a, b) == \A k \in Idx(xs) : GE(At(xs, k), a) /\ LT(At(xs, k), b)

\* C3 as stated: for valid arguments the grid has floor((stop-start)/step)
\* elements, all in [start, stop).
C3_Original ==
    (ValidArgs /\ pc # "arange") =>
        /\ Len0(x_grid) = Floor(Div(Sub(stop, start), step))
        /\ InHalfOpen(x_grid, start, stop)

\* C3, amended: for valid arguments the grid has ceil((stop-start)/step)
\* elements x_k = start + k*step, all in [start, stop).
C3_GridLength ==
    (ValidArgs /\ pc # "arange") =>
        /\ Len0(x_grid) = Ceil(Div(Sub(stop, start), step))
        /\ \A k \in Idx(x_grid) : At(x_grid, k) = Add(start, Mul(IntQ(k), step))
        /\ InHalfOpen(x_grid, start, stop)

\* A grid whose extent is not a multiple of the step.
C3_Witness ==
    /\ ValidArgs
    /\ pc = "done"
    /\ Len0(x_grid) # Floor(Div(Sub(stop, start), step))

InvalidArgs == start = stop \/ GE(IntQ(0), step)

\* C6 as stated: with start == stop or step <= 0 the search fails and no grid
\* point is ever returned as a root.
C6_Original ==
    InvalidArgs => /\ roots = <<>>
                   /\ pc # "done"
                   /\ Terminal => pc = "error"

\* C6, amended: a zero step fails in np.arange (ZeroDivisionError) before a
\* grid exists; start == stop with a non-zero step, and a negative step with
\* start < stop, give an empty grid on which argmin fails (ValueError); in
\* these cases no root is ever returned.  A negative step with start > stop
\* is accepted: the grid descends from start and a root is returned.
C6_InvalidArgs ==
    /\ (start = stop \/ step.n = 0 \/ (step.n < 0 /\ LT(start, stop))) =>
           /\ roots = <<>>
           /\ pc # "done"
    /\ (Terminal /\ step.n = 0) =>
           /\ err = "ZeroDivisionError"
           /\ Len0(x_grid) = 0
    /\ (Terminal /\ step.n # 0 /\ (start = stop \/ (step.n < 0 /\ LT(start, stop)))) =>
           /\ err = "ValueError"
           /\ Len0(x_grid) = 0
    /\ (Terminal /\ step.n < 0 /\ LT(stop, start)) =>
           /\ pc = "done"
           /\ err = "none"
           /\ Len(roots) = 1
           /\ \A k \in Idx(x_grid) : GE(start, At(x_grid, k)) /\ LT(stop, At(x_grid, k))

\* A search with start == stop and a positive step has failed.
C6_Witness ==
    /\ pc = "error"
    /\ start = stop
    /\ step.n > 0
    /\ err = "ValueError"

StepTooLarge == LT(start, stop) /\ LT(IntQ(0), step) /\ GE(step, Sub(stop, start))

\* C7 as stated: with start < stop and step >= stop - start > 0 the grid is
\* empty and the search fails.
C7_Original ==
    (StepTooLarge /\ Terminal) =>
        /\ Len0(x_grid) = 0
        /\ pc = "error"
        /\ roots = <<>>

\* C7, amended: with start < stop and step >= stop - start > 0 the grid has
\* exactly one element, start, and the search returns start as the root
\* without failing.
C7_SinglePoint ==
    /\ (StepTooLarge /\ pc # "arange") => Len0(x_grid) = 1 /\ At(x_grid, 0) = start
    /\ (StepTooLarge /\ Terminal) =>
           /\ pc = "done"
           /\ err = "none"
           /\ roots = <<start>>
           /\ x_root_index = 0

\* A search whose step exceeds stop - start has returned start.
C7_Witness ==
    /\ pc = "done"
    /\ LT(start, stop)
    /\ LT(Sub(stop, start), step)
    /\ roots = <<start>>

SomeNaN == \E j \in Idx(f_grid) : IsNaN(At(f_grid, j))

SomeNonFinite == \E j \in Idx(f_grid) : ~IsFinite(At(f_grid, j))

SomeFinite == \E j \in Idx(f_grid) : IsFinite(At(f_grid, j))

\* The lowest index with minimal |f| among the finite values.
IsFirstFiniteMin(r) ==
    /\ r \in Idx(f_grid)
    /\ IsFinite(At(f_grid, r))
    /\ \A j \in Idx(f_grid) : IsFinite(At(f_grid, j)) => GE(Abs(At(f_grid, j)), Abs(At(f_grid, r)))
    /\ \A j \in 0 .. r - 1 : IsFinite(At(f_grid, j)) => LT(Abs(At(f_grid, r)), Abs(At(f_grid, j)))

\* C8 as stated: with some but not all values non-finite the search returns
\* the lowest-index finite grid point with minimal |f|; with all values
\* non-finite it fails.
C8_Original ==
    Terminal =>
        /\ (SomeNonFinite /\ SomeFinite) =>
               pc = "done" /\ IsFirstFiniteMin(x_root_index)
        /\ ~SomeFinite => pc = "error" /\ roots = <<>>

\* C8, amended: non-finite values never make the search fail.  If some value
\* is NaN the first NaN's grid point is returned.  Otherwise an infinite
\* value has infinite magnitude: the lowest index with minimal |f| is
\* returned, which is a finite value's if there is one and index 0 if all
\* values are infinite.
C8_NonFinite ==
    /\ Terminal =>
           /\ pc = "done"
           /\ err = "none"
           /\ roots = <<At(x_grid, x_root_index)>>
           /\ \A k \in Idx(x_grid) : At(f_grid, k) = fn.tab[At(x_grid, k).n]
           /\ SomeNaN =>
                  /\ IsNaN(At(f_grid, x_root_index))
                  /\ \A j \in 0 .. x_root_index - 1 : ~IsNaN(At(f_grid, j))
           /\ (~SomeNaN /\ SomeFinite) => IsFirstFiniteMin(x_root_index)
           /\ ~SomeNaN =>
                  /\ \A j \in Idx(f_grid) : GE(Abs(At(f_grid, j)), Abs(At(f_grid, x_root_index)))
                  /\ \A j \in 0 .. x_root_index - 1 :
                         LT(Abs(At(f_grid, x_root_index)), Abs(At(f_grid, j)))
           /\ (~SomeNaN /\ ~SomeFinite) => x_root_index = 0

\* A finite value precedes a NaN, and the NaN's grid point was returned.
C8_Witness ==
    /\ pc = "done"
    /\ x_root_index >= 1
    /\ IsNaN(At(f_grid, x_root_index))
    /\ IsFinite(At(f_grid, 0))
    /\ \E j \in Idx(f_grid) : j > x_root_index /\ IsFinite(At(f_grid, j))

\* xr is a root of the function under test lying between the grid points k
\* and k+1.
BracketedRoot(xr, k) ==
    /\ k \in Idx(x_grid)
    /\ k + 1 \in Idx(x_grid)
    /\ fn.tab[xr].n = 0
    /\ GE(IntQ(xr), At(x_grid, k))
    /\ GE(At(x_grid, k + 1), IntQ(xr))

\* The distance from the returned grid point to xr.
Dist(xr) == Abs(Sub(x_root_1, IntQ(xr)))

LastIndex == Len0(x_grid) - 1

\* C5 as stated, in its most favourable reading (f strictly monotonic, so the
\* root is unique there): if f is monotonic between the two grid points
\* bracketing a root, the returned grid point is within step/2 of that root.
C5_Original ==
    pc = "done" =>
        \A xr \in DOMAIN fn.tab, k \in Idx(x_grid) :
            (BracketedRoot(xr, k)
                 /\ StrictlyMonotonic(fn.tab, At(x_grid, k).n, At(x_grid, k + 1).n))
                => GE(step, Mul(IntQ(2), Dist(xr)))

\* C5, amended: if f is strictly monotonic on the whole sampled interval,
\* from the first grid point to the last, and has a root between two grid
\* points, the returned grid point is one of those two, at a distance less
\* than step (not step/2) from the root.
C5_WithinStep ==
    (pc = "done" /\ StrictlyMonotonic(fn.tab, At(x_grid, 0).n, At(x_grid, LastIndex).n)) =>
        \A xr \in DOMAIN fn.tab, k \in Idx(x_grid) :
            BracketedRoot(xr, k) =>
                /\ x_root_index \in {k, k + 1}
                /\ LT(Dist(xr), step)

\* A strictly monotonic function whose root is further than step/2 from the
\* returned point, which is not the first grid point.
C5_Witness ==
    /\ pc = "done"
    /\ StrictlyMonotonic(fn.tab, At(x_grid, 0).n, At(x_grid, LastIndex).n)
    /\ x_root_index >= 1
    /\ \E xr \in DOMAIN fn.tab, k \in Idx(x_grid) :
           BracketedRoot(xr, k) /\ LT(step, Mul(IntQ(2), Dist(xr)))

Sign(v) == IF v.n > 0 THEN 1 ELSE IF v.n < 0 THEN -1 ELSE 0

\* The state right after x_root_1 = At(x_grid, x_root_index): the first root is
\* known and x_grid, f_grid are still those of the first grid.
AfterFirstSearch == pc = "arange" /\ Len(roots) = 1

\* C4: the search of 0.25*x^2 + x - 1 over the 1500 grid points from -10 up
\* to, not including, 5 in steps of 0.01 returns 0.83 or -4.83; the function
\* changes sign between the two neighbours of the returned point, so a root
\* lies within one step of it; and no grid point has a smaller |f|.
C4_EndToEnd ==
    AfterFirstSearch =>
        /\ Len0(x_grid) = 1500
        /\ At(x_grid, 0) = IntQ(-10)
        /\ At(x_grid, LastIndex) = Rat(499, 100)
        /\ x_root_1 \in {Rat(83, 100), Rat(-483, 100)}
        /\ x_root_1 = At(x_grid, x_root_index)
        /\ Sign(quad_fn(At(x_grid, x_root_index - 1), fn.a, fn.b, fn.c))
              * Sign(quad_fn(At(x_grid, x_root_index + 1), fn.a, fn.b, fn.c)) = -1
        /\ \A j \in Idx(x_grid) : GE(Mag(At(x_grid, j)), Mag(x_root_1))

\* The first search has returned -4.83, whose |f| = 89/40000 is also that of
\* 0.83, later in the scan.
C4_Witness ==
    /\ AfterFirstSearch
    /\ x_root_1 = Rat(-483, 100)
    /\ Mag(x_root_1) = Rat(89, 40000)
    /\ Mag(Rat(83, 100)) = Mag(x_root_1)

\* C10: the root found on the grid from 0 to 1 in steps of 0.0001 has a
\* residual magnitude no greater than that of the root found on the grid
\* from -10 to 5 in steps of 0.01.
C10_Refinement ==
    pc = "done" =>
        /\ Len(roots) = 2
        /\ Len0(x_grid) = 10000
        /\ At(x_grid, 0) = IntQ(0)
        /\ x_root_2 = At(x_grid, x_root_index)
        /\ GE(Mag(x_root_1), Mag(x_root_2))

\* Both searches are over; the second returned 0.8284 with a strictly smaller
\* residual than the first.
C10_Witness ==
    /\ pc = "done"
    /\ x_root_2 = Rat(8284, 10000)
    /\ LT(Mag(x_root_2), Mag(x_root_1))

\* r is the lowest index at which arr is minimal.
IsFirstMin(arr, r) ==
    /\ \A j \in Idx(arr) : GE(At(arr, j), At(arr, r))
    /\ \A j \in 0 .. r - 1 : LT(At(arr, r), At(arr, j))

\* C9: whatever the order in which the workers wrote their entries, the
\* tables have the length of the grid, and on completion the workers' table
\* holds f(x_grid[k]) at every index k, equals the table of the sequential
\* loop, and has the same argmin of absolute values, the lowest minimal index.
C9_OrderIndependent ==
    /\ pc \in {"loop", "done"} =>
           /\ Len0(f_grid) = Len0(x_grid)
           /\ Len0(p_grid) = Len0(x_grid)
    /\ pc = "done" =>
           /\ \A k \in Idx(x_grid) : At(p_grid, k) = Apply(fn, At(x_grid, k))
           /\ p_grid = f_grid
           /\ ArgMin(AbsArr(p_grid)) = ArgMin(AbsArr(f_grid))
           /\ IsFirstMin(AbsArr(p_grid), ArgMin(AbsArr(p_grid)))

\* The workers finished in the order 2, 0, 1 on a table whose minimal
\* absolute value occurs twice.
C9_Witness ==
    /\ pc = "done"
    /\ order = <<2, 0, 1>>
    /\ Abs(At(p_grid, 1)) = Abs(At(p_grid, 2))
    /\ ArgMin(AbsArr(p_grid)) = 1

====
